---- MODULE Spec2Model ----
(***************************************************************************)
(* slog-discord: a slog.Handler that turns a log record into a Discord     *)
(* embed and POSTs it to a webhook (src/handler.go).                       *)
(*                                                                         *)
(* The model has one DiscordHandler object (its field `config`) and a set  *)
(* of goroutines that use it the way the example program does: through a   *)
(* slog.Logger, which calls Enabled for the record's level and calls       *)
(* Handle only when Enabled returned true, and through WithAttrs and       *)
(* WithGroup.  A call is a sequence of steps, so that calls of different   *)
(* goroutines interleave; Enabled's read, write and read of                *)
(* h.config.MinLevel are steps of their own, since that field is shared    *)
(* and unsynchronised.  A Go pointer is a sequence of length 0 (nil) or 1; *)
(* an error is the sequence of its wrapped layers, <<>> being nil.         *)
(* Durations are in seconds.                                               *)
(***************************************************************************)
EXTENDS Integers, Sequences, FiniteSets, TLC

VARIABLES
    cfg0,       \* the cfg argument NewDiscordHandler was given
    config,     \* h.config, the handler's stored copy
    st,         \* per goroutine: the call in progress, its locals and results
    calls,      \* number of calls started so far
    augmented,  \* keys and group names handed to WithAttrs / WithGroup so far
    panicked    \* a goroutine panicked: the process is gone

vars == <<cfg0, config, st, calls, augmented, panicked>>

----------------------------------------------------------------------------
(* Bounds of the model *)

NumCallers == 2
MaxCalls == 2

Callers == 1..NumCallers

----------------------------------------------------------------------------
(* slog levels and records (log/slog, used at handler.go:41-49) *)

LevelDebug == -4
LevelInfo == 0
LevelWarn == 4
\* a custom level below Debug (slog levels are arbitrary integers)
LevelTrace == LevelDebug - 4

\* slog.Level.String(), the level name the colour table is keyed by
LevelString(l) ==
    CASE l = LevelTrace -> "DEBUG-4"
      [] l = LevelDebug -> "DEBUG"
      [] l = LevelInfo  -> "INFO"
      [] l = LevelWarn  -> "WARN"
      [] OTHER          -> "LEVEL"

Attr(k, v) == [Key |-> k, Value |-> v]

NoRecord == [Level |-> 0, Message |-> "", Attrs |-> <<>>]

\* the slog.Record values the callers log
Records ==
    { [Level |-> LevelTrace, Message |-> "trace",     Attrs |-> <<>>],
      [Level |-> LevelDebug, Message |-> "debugging", Attrs |-> <<Attr("version", "1.2.3")>>],
      [Level |-> LevelWarn,  Message |-> "disk low",  Attrs |-> <<Attr("pct", "92")>>] }

\* the arguments of WithAttrs and WithGroup
AttrLists == { <<Attr("env", "production")>> }
GroupNames == { "request" }

AttrKeys(attrs) == { attrs[i].Key : i \in 1..Len(attrs) }

----------------------------------------------------------------------------
(* Embeds *)

Now == "now"

\* DefaultEmbed(r, levelColors)
DefaultEmbed(r, levelColors) ==
    [ Title       |-> <<LevelString(r.Level)>>,
      Description |-> <<r.Message>>,
      Color       |-> IF LevelString(r.Level) \in DOMAIN levelColors
                      THEN levelColors[LevelString(r.Level)] ELSE 0,
      Timestamp   |-> Now,
      Fields      |-> [ i \in 1..Len(r.Attrs) |->
                          [Name |-> r.Attrs[i].Key, Value |-> r.Attrs[i].Value,
                           Inline |-> FALSE] ],
      Footer      |-> <<>> ]

\* the CustomEmbed function of the example program
ExampleCustomEmbed(r, lc) ==
    [ Title       |-> <<"Custom title: ", LevelString(r.Level)>>,
      Description |-> <<"Custom description: ", r.Message>>,
      Color       |-> IF LevelString(r.Level) \in DOMAIN lc
                      THEN lc[LevelString(r.Level)] ELSE 0,
      Timestamp   |-> Now,
      Fields      |-> << [Name |-> "Custom Field", Value |-> "Custom Value",
                          Inline |-> TRUE] >>,
      Footer      |-> << [Text |-> "Custom Footer"] >> ]

\* The values of the CustomEmbed field: nil, the example's function, and a
\* function that returns a nil *DiscordEmbed.
CustomEmbedNil == "nil"
CustomEmbedFuncs == {CustomEmbedNil, "example", "returnsNil"}

\* calling a CustomEmbed function value: the *DiscordEmbed it returns
CallCustomEmbed(f, r, lc) ==
    IF f = "example" THEN <<ExampleCustomEmbed(r, lc)>> ELSE <<>>

----------------------------------------------------------------------------
(* Configuration *)

ExampleColors == [n \in {"WARN"} |-> 15844367]

GoodURL == "https://discord.test/api/webhooks/1"
BadURL == "://bad"

\* url.Parse as used by http.NewRequest: does the URL parse?
URLParses(u) == u = GoodURL

Configs ==
    [ MinLevel    : {LevelDebug, LevelInfo, LevelWarn},
      Timeout     : {0, 3},
      WebhookURL  : {GoodURL, BadURL},
      Username    : {"Slog Notifications"},
      AvatarURL   : {""},
      LevelColors : {ExampleColors},
      CustomEmbed : CustomEmbedFuncs ]

\* the fallback of sendToDiscord, 5 * time.Second
DefaultTimeout == 5

\* NewDiscordHandler copies cfg into the handler
NewDiscordHandler(cfg) == cfg

\* the one handler object, as a handler value: <<object>>
TheHandler == "h"

----------------------------------------------------------------------------
(* Payload and its JSON encoding (handler.go:86-91) *)

\* Payload{Username, AvatarURL, Embeds: []DiscordEmbed{*embed}}
Payload(username, avatar, embedPtr) ==
    [Username |-> username, AvatarURL |-> avatar, Embeds |-> <<embedPtr[1]>>]

\* json.Marshal(payload): the struct tags drop an empty username / avatar_url
Marshal(p) ==
    [ k \in {"embeds"} \cup (IF p.Username = "" THEN {} ELSE {"username"})
                       \cup (IF p.AvatarURL = "" THEN {} ELSE {"avatar_url"}) |->
        CASE k = "embeds"   -> p.Embeds
          [] k = "username" -> <<p.Username>>
          [] OTHER          -> <<p.AvatarURL>> ]

----------------------------------------------------------------------------
(* Errors: fmt.Errorf with %w wraps, %d formats a number into the text *)

NoError == <<>>
Errorf(msg, arg, wrapped) == <<[msg |-> msg, arg |-> arg]>> \o wrapped

\* the error of the environment (encoder, URL parser, transport)
EnvError(what) == <<[msg |-> what, arg |-> 0]>>

\* the HTTP status codes the webhook answers with
StatusCodes == {204, 399, 400}

----------------------------------------------------------------------------
(* The decisions of the methods, as the code takes them *)

\* (variant: the zero value is never taken for "unset")
MinLevelNeverUnset(minLevel) == FALSE

\* Enabled, line 42: is the stored minimum the zero value?
MinLevelUnset(minLevel) == minLevel = 0

\* Enabled, line 45
EnabledResult(lvl, minLevel) == lvl >= minLevel

\* (variant: the CustomEmbed field is ignored)
BuildEmbedAlwaysDefault(cfg, r) ==
    [embed |-> <<DefaultEmbed(r, cfg.LevelColors)>>, usedDefault |-> TRUE]

\* Handle, lines 51-56: the embed pointer, and whether DefaultEmbed made it
BuildEmbed(cfg, r) ==
    IF cfg.CustomEmbed # CustomEmbedNil
    THEN [embed |-> CallCustomEmbed(cfg.CustomEmbed, r, cfg.LevelColors),
          usedDefault |-> FALSE]
    ELSE [embed |-> <<DefaultEmbed(r, cfg.LevelColors)>>, usedDefault |-> TRUE]

\* (variant: no fallback for a zero timeout)
ResolveTimeoutNoDefault(cfgTimeout, timeOut) == timeOut

\* sendToDiscord, lines 104-106: the timeout the client gets
ResolveTimeout(cfgTimeout, timeOut) ==
    IF cfgTimeout = 0 THEN DefaultTimeout ELSE timeOut

\* (variant: off by one, 400 passes as success)
StatusIsFailureAbove400(code) == code > 400

\* sendToDiscord, line 117
StatusIsFailure(code) == code >= 400

\* (variant: WithAttrs returns a clone that stores the attributes)
WithAttrsClone(h, attrs) == <<h, attrs>>

\* WithAttrs, line 77 and WithGroup, line 83: the handler returned
WithAttrsResult(h, attrs) == <<h>>
WithGroupResult(h, name) == <<h>>

----------------------------------------------------------------------------
(* State of a goroutine's call *)

NoCall ==
    [ pc       |-> "idle",   \* where the call is
      op       |-> "",       \* Log, WithAttrs, WithGroup
      lvl      |-> 0,        \* Enabled's lvl argument
      r        |-> NoRecord, \* the record logged, Handle's r
      enabled  |-> FALSE,    \* Enabled's return value
      embed    |-> <<>>,     \* Handle's embed pointer
      usedDefault |-> FALSE, \* DefaultEmbed was called
      payload  |-> <<>>,     \* Handle's payload
      data     |-> <<>>,     \* the marshalled body
      req      |-> <<>>,     \* the *http.Request
      timeOut  |-> 0,        \* sendToDiscord's timeOut
      client   |-> <<>>,     \* the http.Client's Timeout
      reqs     |-> 0,        \* requests this call handed to client.Do
      status   |-> 0,        \* resp.StatusCode, 0 without a response
      err      |-> NoError,  \* sendToDiscord's error, then Handle's
      handler  |-> <<>> ]    \* WithAttrs' / WithGroup's return value

Free(c) == st[c].pc \in {"idle", "done"}

Begin(c, call) ==
    /\ ~panicked
    /\ Free(c)
    /\ calls < MaxCalls
    /\ calls' = calls + 1
    /\ st' = [st EXCEPT ![c] = call]

Step(c, at) == ~panicked /\ st[c].pc = at

Init ==
    /\ cfg0 \in Configs
    /\ config = NewDiscordHandler(cfg0)
    /\ st = [c \in Callers |-> NoCall]
    /\ calls = 0
    /\ augmented = {}
    /\ panicked = FALSE

----------------------------------------------------------------------------
(* Calls *)

\* logger.Info / Warn / ... of a slog.Logger over h: Enabled first, then Handle
CallLog(c) ==
    \E r \in Records :
        /\ Begin(c, [NoCall EXCEPT !.pc = "Enabled", !.op = "Log",
                                   !.lvl = r.Level, !.r = r])
        /\ UNCHANGED <<cfg0, config, augmented, panicked>>

\* the logger after Enabled returned: drop the record or hand it to Handle
LogDispatch(c) ==
    /\ Step(c, "Log_dispatch")
    /\ st' = [st EXCEPT ![c].pc = IF st[c].enabled THEN "Handle" ELSE "done"]
    /\ UNCHANGED <<cfg0, config, calls, augmented, panicked>>

\* h.WithAttrs(attrs)
WithAttrs(c) ==
    \E attrs \in AttrLists :
        /\ Begin(c, [NoCall EXCEPT !.pc = "done", !.op = "WithAttrs",
                                   !.handler = WithAttrsResult(TheHandler, attrs)])
        /\ augmented' = augmented \cup AttrKeys(attrs)
        /\ UNCHANGED <<cfg0, config, panicked>>

\* h.WithGroup(name)
WithGroup(c) ==
    \E name \in GroupNames :
        /\ Begin(c, [NoCall EXCEPT !.pc = "done", !.op = "WithGroup",
                                   !.handler = WithGroupResult(TheHandler, name)])
        /\ augmented' = augmented \cup {name}
        /\ UNCHANGED <<cfg0, config, panicked>>

----------------------------------------------------------------------------
(* Enabled (handler.go:41-46) *)

\* line 42: read h.config.MinLevel
EnabledCheck(c) ==
    /\ Step(c, "Enabled")
    /\ st' = [st EXCEPT ![c].pc = IF MinLevelUnset(config.MinLevel)
                                  THEN "Enabled_write" ELSE "Enabled_ret"]
    /\ UNCHANGED <<cfg0, config, calls, augmented, panicked>>

\* line 43: h.config.MinLevel = slog.LevelDebug
EnabledWrite(c) ==
    /\ Step(c, "Enabled_write")
    /\ config' = [config EXCEPT !.MinLevel = LevelDebug]
    /\ st' = [st EXCEPT ![c].pc = "Enabled_ret"]
    /\ UNCHANGED <<cfg0, calls, augmented, panicked>>

\* line 45: return lvl >= h.config.MinLevel
EnabledReturn(c) ==
    /\ Step(c, "Enabled_ret")
    /\ st' = [st EXCEPT ![c].enabled = EnabledResult(st[c].lvl, config.MinLevel),
                        ![c].pc = IF st[c].op = "Log" THEN "Log_dispatch" ELSE "done"]
    /\ UNCHANGED <<cfg0, config, calls, augmented, panicked>>

----------------------------------------------------------------------------
(* Handle (handler.go:49-71) and sendToDiscord (handler.go:93-122).  Their  *)
(* statements read the configuration and write locals only; a step ends    *)
(* where the encoder, the URL parser or the network decides what follows.  *)

\* Handle, lines 66-70: what Handle returns for sendToDiscord's error
HandleError(err) ==
    IF err # NoError THEN Errorf("failed to send log to Discord", 0, err) ELSE NoError

\* Handle, lines 51-63 with a non-nil embed, up to the call of line 66
HandleBuild(c) ==
    /\ Step(c, "Handle")
    /\ BuildEmbed(config, st[c].r).embed # <<>>
    /\ st' = [st EXCEPT ![c].embed = BuildEmbed(config, st[c].r).embed,
                        ![c].usedDefault = BuildEmbed(config, st[c].r).usedDefault,
                        ![c].payload = << Payload(config.Username, config.AvatarURL,
                                                  BuildEmbed(config, st[c].r).embed) >>,
                        ![c].timeOut = config.Timeout,
                        ![c].pc = "send"]
    /\ UNCHANGED <<cfg0, config, calls, augmented, panicked>>

\* Handle, lines 51-62 with a nil embed: *embed panics, nothing recovers it
HandleNilEmbed(c) ==
    /\ Step(c, "Handle")
    /\ BuildEmbed(config, st[c].r).embed = <<>>
    /\ st' = [st EXCEPT ![c].usedDefault = BuildEmbed(config, st[c].r).usedDefault,
                        ![c].pc = "panic"]
    /\ panicked' = TRUE
    /\ UNCHANGED <<cfg0, config, calls, augmented>>

\* sendToDiscord, lines 94-97, json.Marshal fails; Handle returns at line 67
SendMarshalFails(c) ==
    /\ Step(c, "send")
    /\ st' = [st EXCEPT ![c].err = HandleError(
                                Errorf("failed to marshal JSON", 0, EnvError("json"))),
                        ![c].pc = "done"]
    /\ UNCHANGED <<cfg0, config, calls, augmented, panicked>>

\* lines 94-102, http.NewRequest fails; Handle returns at line 67
SendNewRequestFails(c) ==
    /\ Step(c, "send")
    /\ ~URLParses(config.WebhookURL)
    /\ st' = [st EXCEPT ![c].data = <<Marshal(st[c].payload[1])>>,
                        ![c].err = HandleError(
                                Errorf("failed to create request", 0, EnvError("url"))),
                        ![c].pc = "done"]
    /\ UNCHANGED <<cfg0, config, calls, augmented, panicked>>

\* lines 94-109: body, request, timeout and client are ready
SendPrepare(c) ==
    /\ Step(c, "send")
    /\ URLParses(config.WebhookURL)
    /\ st' = [st EXCEPT ![c].data = <<Marshal(st[c].payload[1])>>,
                        ![c].req = << [Method |-> "POST", URL |-> config.WebhookURL,
                                       Body |-> Marshal(st[c].payload[1])] >>,
                        ![c].timeOut = ResolveTimeout(config.Timeout, st[c].timeOut),
                        ![c].client = <<ResolveTimeout(config.Timeout, st[c].timeOut)>>,
                        ![c].pc = "send_do"]
    /\ UNCHANGED <<cfg0, config, calls, augmented, panicked>>

\* (variant: a failed request is sent once more)
SendDoRetries(c) ==
    /\ Step(c, "send_do")
    /\ st' = [st EXCEPT ![c].reqs = @ + 1,
                        ![c].err = HandleError(
                                Errorf("request failed", 0, EnvError("transport"))),
                        ![c].pc = IF st[c].reqs = 0 THEN "send_do" ELSE "done"]
    /\ UNCHANGED <<cfg0, config, calls, augmented, panicked>>

\* lines 111-114, client.Do fails (refused, reset, timeout ran out); Handle
\* returns at line 67
SendDoFails(c) ==
    /\ Step(c, "send_do")
    /\ st' = [st EXCEPT ![c].reqs = @ + 1,
                        ![c].err = HandleError(
                                Errorf("request failed", 0, EnvError("transport"))),
                        ![c].pc = "done"]
    /\ UNCHANGED <<cfg0, config, calls, augmented, panicked>>

\* lines 111-121, client.Do returns a response and the status decides; Handle
\* returns at line 67 or 70
SendDoResponds(c) ==
    /\ Step(c, "send_do")
    /\ \E code \in StatusCodes :
        st' = [st EXCEPT ![c].reqs = @ + 1,
                         ![c].status = code,
                         ![c].err = HandleError(
                                IF StatusIsFailure(code)
                                THEN Errorf("discord returned non-OK status", code, NoError)
                                ELSE NoError),
                         ![c].pc = "done"]
    /\ UNCHANGED <<cfg0, config, calls, augmented, panicked>>

----------------------------------------------------------------------------

Next ==
    \E c \in Callers :
        \/ CallLog(c)
        \/ LogDispatch(c)
        \/ WithAttrs(c)
        \/ WithGroup(c)
        \/ EnabledCheck(c)
        \/ EnabledWrite(c)
        \/ EnabledReturn(c)
        \/ HandleBuild(c)
        \/ HandleNilEmbed(c)
        \/ SendMarshalFails(c)
        \/ SendNewRequestFails(c)
        \/ SendPrepare(c)
        \/ SendDoFails(c)
        \/ SendDoResponds(c)

Spec == Init /\ [][Next]_vars

----------------------------------------------------------------------------
(* Where a call is *)

\* Enabled has returned st[c].enabled for level st[c].lvl
EnabledReturned(c) ==
    /\ st[c].op = "Log"
    /\ st[c].pc \in {"Log_dispatch", "Handle", "send", "send_do", "done", "panic"}

\* Handle has returned st[c].err to its caller
HandleReturned(c) ==
    st[c].op = "Log" /\ st[c].pc = "done" /\ st[c].enabled

FieldNames(embed) == { embed.Fields[i].Name : i \in 1..Len(embed.Fields) }

----------------------------------------------------------------------------
(* Claims *)

\* C1: for every level L and every minimum M given at construction, M = Info
\* (0) included, Enabled(L) returns true if and only if L >= M.
C1_EnabledIffAtLeastConfigured ==
    \A c \in Callers :
        EnabledReturned(c) => (st[c].enabled <=> st[c].lvl >= cfg0.MinLevel)

\* C2: Handle returns nil exactly when its request got a response with a
\* status below 400; after a failed serialization, request construction or
\* transport, or a status of 400 and above, it returns an error, and for a
\* status of 400 and above the error carries the status code.
C2_HandleResult ==
    \A c \in Callers :
        HandleReturned(c) =>
            /\ (st[c].err = NoError) <=>
                   (st[c].reqs = 1 /\ st[c].status # 0 /\ st[c].status < 400)
            /\ st[c].status >= 400 =>
                   \E i \in 1..Len(st[c].err) : st[c].err[i].arg = st[c].status

C2_Witness ==
    \E c, d \in Callers :
        /\ HandleReturned(c) /\ st[c].status = 399 /\ st[c].err = NoError
        /\ HandleReturned(d) /\ st[d].status = 400 /\ st[d].err # NoError

\* C3: a Handle call makes at most one HTTP request, and exactly one when
\* serialization and request construction succeeded; a failed request is
\* not sent again.
C3_OneRequestPerCall ==
    \A c \in Callers :
        /\ st[c].reqs <= 1
        /\ HandleReturned(c) =>
               (st[c].reqs = 1 <=> (st[c].data # <<>> /\ st[c].req # <<>>))

C3_Witness ==
    \E c \in Callers :
        /\ HandleReturned(c) /\ st[c].reqs = 1
        /\ st[c].status = 0 /\ st[c].err # NoError

\* C4: the stored configuration is read-only: whatever calls were made, in
\* whatever interleaving, every field of it equals the value given at
\* construction.
C4_ConfigReadOnly == config = cfg0

C6_FilterGatesDelivery ==
    \A c \in Callers :
        (st[c].op = "Log" /\ st[c].r.Level < cfg0.MinLevel) =>
            (st[c].embed = <<>> /\ st[c].reqs = 0)

\* C7: Handle has no crashing path: whatever the configuration and whatever
\* the custom embed function returns, no call ends in a panic.
C7_HandleNeverPanics ==
    ~panicked /\ \A c \in Callers : st[c].pc # "panic"

C9_TimeoutPerCall ==
    /\ config.Timeout = cfg0.Timeout
    /\ \A c \in Callers :
        st[c].client # <<>> =>
            st[c].client[1] = IF cfg0.Timeout = 0 THEN 5 ELSE cfg0.Timeout

C9_Witness ==
    /\ cfg0.Timeout = 0
    /\ \E c, d \in Callers :
        /\ c # d
        /\ st[c].pc = "send_do" /\ st[c].client = <<5>>
        /\ st[d].pc = "send_do" /\ st[d].client = <<5>>

\* C10: a payload holds exactly one embed: with a custom embed function
\* configured it is that function's return value and DefaultEmbed was not
\* called for the record; without one it is DefaultEmbed's output.
C10_OneEmbedCustomOrDefault ==
    \A c \in Callers :
        st[c].payload # <<>> =>
            /\ Len(st[c].payload[1].Embeds) = 1
            /\ st[c].data # <<>> => Len(st[c].data[1]["embeds"]) = 1
            /\ IF cfg0.CustomEmbed # CustomEmbedNil
               THEN /\ ~st[c].usedDefault
                    /\ <<st[c].payload[1].Embeds[1]>> =
                           CallCustomEmbed(cfg0.CustomEmbed, st[c].r, cfg0.LevelColors)
               ELSE /\ st[c].usedDefault
                    /\ st[c].payload[1].Embeds[1] =
                           DefaultEmbed(st[c].r, cfg0.LevelColors)

C10_Witness ==
    /\ cfg0.CustomEmbed = "example"
    /\ \E c \in Callers :
        /\ st[c].reqs = 1
        /\ st[c].payload[1].Embeds = <<ExampleCustomEmbed(st[c].r, cfg0.LevelColors)>>

====
